---- MODULE Spec2Model ----
(***************************************************************************)
(* randshow: pseudo-random engines (LCG, PCG32, PCG64, SplitMix64,         *)
(* Xoshiro256++), the ranged draw built on them, Shuffle and Sample.       *)
(*                                                                         *)
(* Fixed-width unsigned integers are little-endian sequences of 8-bit      *)
(* limbs: 4 limbs for uint32_t, 8 for uint64_t, 16 for __uint128_t.  All   *)
(* arithmetic on them is exact modulo 2^(8 * Len).                         *)
(***************************************************************************)
EXTENDS Integers, Sequences, FiniteSets, Bags, TLC

VARIABLES
    ctor,      \* how g (and h) were constructed: "none", "seeded", "default",
               \* "generator" (from a SplitMix64) or "reseeded" (h from g.GetSeed())
    kind,      \* engine class of the instances g and h
    g,         \* the engine instance (its fields)
    h,         \* a second instance constructed with the same arguments
    out,       \* value g returned last
    outh,      \* value h returned last
    draws,     \* steps counted against a bound: Next() calls made on g, passes
               \* of Sample's loop, NextReal()/Heads() calls
    call,      \* the last derived call on g: its arguments, result and pre-state
    mem,       \* Shuffle: the cells at begin, begin+1, ... (the range, then what follows it)
    mem0,      \* Shuffle: mem when Shuffle was called
    len,       \* Shuffle: end - begin (negative for an inverted range)
    i,         \* Shuffle / Sample: the loop index (size_t)
    pc,        \* Shuffle / Sample: position in the function
    span,      \* Sample: end - begin of the source range (negative when inverted)
    n,         \* Sample: size of the source range
    k,         \* Sample: requested sample size
    weight,    \* Sample: the running skip weight w (its class, see WeightOf)
    reservoir, \* Sample: the result vector, positions relative to begin
    pool       \* SampleWithReplacement: the result vector, positions relative to begin

vars ==
    <<ctor, kind, g, h, out, outh, draws, call, mem, mem0, len, i, pc, span, n, k, weight,
      reservoir, pool>>

----------------------------------------------------------------------------
(* Fixed-width unsigned arithmetic                                         *)

Zero(w) == [j \in 1..w |-> 0]

\* limb j of x, 0 outside the word
Limb(x, j) == IF j >= 1 /\ j <= Len(x) THEN x[j] ELSE 0

\* the value v (0 <= v < 2^31) as a w-limb word
RECURSIVE FromNat(_, _)
FromNat(v, w) == IF w = 0 THEN <<>> ELSE <<v % 256>> \o FromNat(v \div 256, w - 1)

\* the value of a word known to be below 2^31
RECURSIVE ToNat(_)
ToNat(x) == IF Len(x) = 0 THEN 0 ELSE x[1] + 256 * ToNat(Tail(x))

\* conversion to a narrower unsigned type keeps the low limbs
Trunc(x, w) == SubSeq(x, 1, w)

\* conversion to a wider unsigned type zero-extends
Ext(x, w) == [j \in 1..w |-> Limb(x, j)]

RECURSIVE AddFrom(_, _, _, _)
AddFrom(x, y, j, c) ==
    IF j > Len(x) THEN <<>>
    ELSE CHOOSE v \in {<<t % 256>> \o AddFrom(x, y, j + 1, t \div 256) :
                          t \in {x[j] + y[j] + c}} : TRUE

Add(x, y) == CHOOSE v \in {AddFrom(a, b, 1, 0) : a \in {x}, b \in {y}} : TRUE

Not(x) == CHOOSE v \in {SubSeq([j \in 1..Len(a) |-> 255 - a[j]], 1, Len(a)) : a \in {x}} : TRUE

Sub(x, y) == Add(Add(x, Not(y)), FromNat(1, Len(x)))

RECURSIVE Column(_, _, _, _)
Column(x, y, col, j) ==
    IF j > col THEN 0 ELSE x[j] * y[col + 1 - j] + Column(x, y, col, j + 1)

RECURSIVE MulFrom(_, _, _, _)
MulFrom(x, y, j, c) ==
    IF j > Len(x) THEN <<>>
    ELSE CHOOSE v \in {<<t % 256>> \o MulFrom(x, y, j + 1, t \div 256) :
                          t \in {Column(x, y, j, 1) + c}} : TRUE

Mul(x, y) == CHOOSE v \in {MulFrom(a, b, 1, 0) : a \in {x}, b \in {y}} : TRUE

RECURSIVE Xor8(_, _)
Xor8(a, b) ==
    IF a = 0 THEN b
    ELSE IF b = 0 THEN a
    ELSE ((a + b) % 2) + 2 * Xor8(a \div 2, b \div 2)

RECURSIVE Or8(_, _)
Or8(a, b) ==
    IF a = 0 THEN b
    ELSE IF b = 0 THEN a
    ELSE (IF a % 2 = 1 \/ b % 2 = 1 THEN 1 ELSE 0) + 2 * Or8(a \div 2, b \div 2)

Xor(x, y) ==
    CHOOSE v \in {SubSeq([j \in 1..Len(a) |-> Xor8(a[j], b[j])], 1, Len(a)) :
                     a \in {x}, b \in {y}} : TRUE

Or(x, y) ==
    CHOOSE v \in {SubSeq([j \in 1..Len(a) |-> Or8(a[j], b[j])], 1, Len(a)) :
                     a \in {x}, b \in {y}} : TRUE

\* x >> r, for 0 <= r
Shr(x, r) ==
    CHOOSE v \in {SubSeq([j \in 1..Len(a) |->
                             ((Limb(a, j + q) \div (2 ^ s))
                                 + Limb(a, j + q + 1) * (2 ^ (8 - s))) % 256], 1, Len(a)) :
                     a \in {x}, q \in {r \div 8}, s \in {r % 8}} : TRUE

\* x << r, for 0 <= r
Shl(x, r) ==
    CHOOSE v \in {SubSeq([j \in 1..Len(a) |->
                             ((Limb(a, j - q) * (2 ^ s)) % 256)
                                 + (Limb(a, j - q - 1) \div (2 ^ (8 - s)))], 1, Len(a)) :
                     a \in {x}, q \in {r \div 8}, s \in {r % 8}} : TRUE

\* unsigned x < y, compared from the top limb down
RECURSIVE LessFrom(_, _, _)
LessFrom(x, y, j) ==
    IF j = 0 THEN FALSE
    ELSE IF x[j] # y[j] THEN x[j] < y[j]
    ELSE LessFrom(x, y, j - 1)

Less(x, y) == LessFrom(x, y, Len(x))

Greater(x, y) == Less(y, x)

\* x % m by long division on digits of 15 bits, least significant first (a
\* product of two digits stays below 2^31); x % 0 is left as x.
ToDigits(x) ==
    LET nd == (8 * Len(x) + 14) \div 15
    IN  SubSeq([d \in 1..nd |->
                  LET q == (15 * (d - 1)) \div 8
                      s == (15 * (d - 1)) % 8
                  IN  ((Limb(x, q + 1) + 256 * Limb(x, q + 2) + 65536 * Limb(x, q + 3))
                          \div (2 ^ s)) % 32768], 1, nd)

FromDigits(ds, w) ==
    SubSeq([j \in 1..w |->
              LET q == (8 * (j - 1)) \div 15
                  s == (8 * (j - 1)) % 15
              IN  ((Limb(ds, q + 1) + 32768 * Limb(ds, q + 2)) \div (2 ^ s)) % 256], 1, w)

\* the number of digits up to the last one that is not zero
RECURSIVE TopDigit(_, _)
TopDigit(ds, j) == IF j = 0 \/ ds[j] # 0 THEN j ELSE TopDigit(ds, j - 1)

\* the shift that brings the digit t # 0 to 2^14 or above
RECURSIVE NormShift(_, _)
NormShift(t, s) == IF t * (2 ^ s) >= 16384 THEN s ELSE NormShift(t, s + 1)

\* digits j.. of ds * 2^s + c, one digit more than ds has
RECURSIVE ScaleUp(_, _, _, _)
ScaleUp(ds, s, j, c) ==
    IF j > Len(ds) THEN <<c>>
    ELSE CHOOSE v \in {<<t % 32768>> \o ScaleUp(ds, s, j + 1, t \div 32768) :
                          t \in {ds[j] * (2 ^ s) + c}} : TRUE

\* ds \div 2^s
ScaleDown(ds, s) ==
    SubSeq([j \in 1..Len(ds) |->
              (ds[j] \div (2 ^ s)) + (Limb(ds, j + 1) % (2 ^ s)) * (2 ^ (15 - s))],
           1, Len(ds))

\* digits j.. of t - q * m, for q * m <= t; c the carry of q * m, b the borrow
RECURSIVE MulSub(_, _, _, _, _, _)
MulSub(t, m, q, j, c, b) ==
    IF j > Len(t) THEN <<>>
    ELSE CHOOSE v \in {<<(d + 32768) % 32768>>
                          \o MulSub(t, m, q, j + 1, p \div 32768, IF d < 0 THEN 1 ELSE 0) :
                          p \in {q * m[j] + c},
                          d \in {t[j] - ((q * m[j] + c) % 32768) - b}} : TRUE

\* r less the multiple of m that brings it below m
RECURSIVE Reduce(_, _)
Reduce(r, m) ==
    IF Less(r, m) THEN r
    ELSE CHOOSE v \in {Reduce(r2, m) : r2 \in {MulSub(r, m, 1, 1, 0, 0)}} : TRUE

\* the remainder of digits j.. of x, given the remainder r of the digits
\* above j; m has its top digit at 2^14 or above and a zero digit over it, and
\* the quotient digit is estimated from below by the top two digits
RECURSIVE ModFrom(_, _, _, _)
ModFrom(r, x, m, j) ==
    IF j = 0 THEN r
    ELSE CHOOSE v \in
           {ModFrom(r2, x, m, j - 1) :
              r2 \in UNION {{Reduce(r1, m) :
                               r1 \in {MulSub(t, m, (t[Len(m)] * 32768 + t[Len(m) - 1])
                                                       \div (m[Len(m) - 1] + 1), 1, 0, 0)}} :
                            t \in {<<x[j]>> \o SubSeq(r, 1, Len(m) - 1)}}} : TRUE

Mod(x, m) ==
    LET w == Len(x)
    IN  IF m = Zero(w) THEN x
        ELSE CHOOSE v \in
               UNION {UNION {{FromDigits(ScaleDown(ModFrom([j \in 1..(top + 1) |-> 0], xs, ms,
                                                          Len(xs)), s), w) :
                                xs \in {ScaleUp(ToDigits(SubSeq(x, 1, w)), s, 1, 0)},
                                ms \in {SubSeq(ScaleUp(md, s, 1, 0), 1, top) \o <<0>>}} :
                             s \in {NormShift(md[top], 0)}} :
                      md \in {ToDigits(SubSeq(m, 1, w))},
                      top \in {TopDigit(ToDigits(SubSeq(m, 1, w)), (8 * w + 14) \div 15)}} : TRUE

\* a decimal literal, most significant digit first
RECURSIVE Dec(_, _)
Dec(ds, w) ==
    IF Len(ds) = 0 THEN Zero(w)
    ELSE Add(Mul(Dec(SubSeq(ds, 1, Len(ds) - 1), w), FromNat(10, w)),
             FromNat(ds[Len(ds)], w))

\* a hexadecimal literal, most significant byte first
Hex(bs) == [j \in 1..Len(bs) |-> bs[Len(bs) + 1 - j]]

----------------------------------------------------------------------------
(* Bit rotation helpers (namespace detail)                                 *)

\* What a shift by the full width of the operand gives.  The C++ standard
\* leaves it undefined; a build either masks the count to the width (the
\* operand comes back unshifted) or shifts every bit out.
ShiftOutcomes == {"masked", "zero"}

\* x << c for 0 <= c <= width, ub choosing the outcome of c = width
ShlFull(x, c, ub) ==
    IF c < 8 * Len(x) THEN Shl(x, c)
    ELSE IF ub = "masked" THEN x ELSE Zero(Len(x))

ShrFull(x, c, ub) ==
    IF c < 8 * Len(x) THEN Shr(x, c)
    ELSE IF ub = "masked" THEN x ELSE Zero(Len(x))

Rotr32(x, r, ub) == Or(Shr(x, r), ShlFull(x, 32 - r, ub))

Rotl32(x, r, ub) == Or(Shl(x, r), ShrFull(x, 32 - r, ub))

Rotr64(x, r, ub) == Or(Shr(x, r), ShlFull(x, 64 - r, ub))

Rotl64(x, r, ub) == Or(Shl(x, r), ShrFull(x, 64 - r, ub))

----------------------------------------------------------------------------
(* Engines                                                                 *)

EngineKinds == {"LCG", "PCG32", "PCG64", "SplitMix64", "Xoshiro256PlusPlus"}

\* limbs of RNG<T>::result_type
ResultLimbs(kd) == IF kd = "PCG32" THEN 4 ELSE 8

\* default member initializers of LCG
DefaultMul == Dec(<<6,4,5,8,9,2,8,1,7,9,4,5,1,3,6,3,9,8,3>>, 8)

DefaultInc == Zero(8)

DefaultMod == Sub(Shl(FromNat(1, 8), 63), FromNat(25, 8))

\* namespace pcg_detail
MUL64 == Dec(<<6,3,6,4,1,3,6,2,2,3,8,4,6,7,9,3,0,0,5>>, 8)

INC64 == Dec(<<1,4,4,2,6,9,5,0,4,0,8,8,8,9,6,3,4,0,7>>, 8)

MUL128 ==
    Add(Shl(Ext(Dec(<<2,5,4,9,2,9,7,9,9,5,3,5,5,4,1,3,9,2,4>>, 8), 16), 64),
        Ext(Dec(<<4,8,6,5,5,4,0,5,9,5,7,1,4,4,2,2,3,4,1>>, 8), 16))

INC128 ==
    Add(Shl(Ext(Dec(<<6,3,6,4,1,3,6,2,2,3,8,4,6,7,9,3,0,0,5>>, 8), 16), 64),
        Ext(Dec(<<1,4,4,2,6,9,5,0,4,0,8,8,8,9,6,3,4,0,7>>, 8), 16))

\* SplitMix64::Advance literals
GoldenGamma == Hex(<<\h9E, \h37, \h79, \hB9, \h7F, \h4A, \h7C, \h15>>)

MixMul1 == Hex(<<\hBF, \h58, \h47, \h6D, \h1C, \hE4, \hE5, \hB9>>)

MixMul2 == Hex(<<\h94, \hD0, \h49, \hBB, \h13, \h31, \h11, \hEB>>)

\* Each Advance gives the instance after the call and the value returned.

\* an Advance on parameters that are not const and takes the new state as
\* the next multiplier
LCG_AdvanceDrift(e) ==
    LET s == Mod(Add(Mul(e.mul_, e.state_), e.inc_), e.mod_)
    IN  [eng |-> [e EXCEPT !.state_ = s, !.mul_ = s], ret |-> s]

\* an Advance that returns the state it found, as the PCG engines do with x
LCG_AdvanceOld(e) ==
    LET s == Mod(Add(Mul(e.mul_, e.state_), e.inc_), e.mod_)
    IN  [eng |-> [e EXCEPT !.state_ = s], ret |-> e.state_]

LCG_Advance(e) ==
    LET s == Mod(Add(Mul(e.mul_, e.state_), e.inc_), e.mod_)
    IN  [eng |-> [e EXCEPT !.state_ = s], ret |-> s]

\* an XSH step followed by a rotation to the left
PCG32_AdvanceRotl(e, ub) ==
    LET x == e.state_
        xorshifted == Trunc(Shr(Xor(Shr(x, 18), x), 27), 4)
    IN  [eng |-> [e EXCEPT !.state_ = Add(Mul(MUL64, x), INC64)],
         ret |-> Rotl32(xorshifted, ToNat(Shr(x, 59)), ub)]

PCG32_Advance(e, ub) ==
    LET x == e.state_
        xorshifted == Trunc(Shr(Xor(Shr(x, 18), x), 27), 4)
    IN  [eng |-> [e EXCEPT !.state_ = Add(Mul(MUL64, x), INC64)],
         ret |-> Rotr32(xorshifted, ToNat(Shr(x, 59)), ub)]

\* the XOR of the halves with each of its 32-bit halves rotated on its own
PCG64_AdvanceHalves(e, ub) ==
    LET x == e.state_
        count == ToNat(Trunc(Shr(x, 122), 8))
        fold == Trunc(Xor(x, Shr(x, 64)), 8)
        lo == Rotr32(Trunc(fold, 4), count % 32, ub)
        hi == Rotr32(Trunc(Shr(fold, 32), 4), count % 32, ub)
    IN  [eng |-> [e EXCEPT !.state_ = Add(Mul(MUL128, x), INC128)],
         ret |-> lo \o hi]

PCG64_Advance(e, ub) ==
    LET x == e.state_
        count == ToNat(Trunc(Shr(x, 122), 8))
    IN  [eng |-> [e EXCEPT !.state_ = Add(Mul(MUL128, x), INC128)],
         ret |-> Rotr64(Trunc(Xor(x, Shr(x, 64)), 8), count, ub)]

\* an advance that mixes the state it found and increments afterwards
SplitMix64_AdvancePre(e) ==
    LET s  == Add(e.state_, GoldenGamma)
        r1 == Mul(Xor(e.state_, Shr(e.state_, 30)), MixMul1)
        r2 == Mul(Xor(r1, Shr(r1, 27)), MixMul2)
    IN  [eng |-> [e EXCEPT !.state_ = s], ret |-> Xor(r2, Shr(r2, 31))]

SplitMix64_Advance(e) ==
    LET s  == Add(e.state_, GoldenGamma)
        r1 == Mul(Xor(s, Shr(s, 30)), MixMul1)
        r2 == Mul(Xor(r1, Shr(r1, 27)), MixMul2)
    IN  [eng |-> [e EXCEPT !.state_ = s], ret |-> Xor(r2, Shr(r2, 31))]

\* an advance that takes t = s_[1] << 17 after s_[1] has been updated
Xoshiro_AdvanceLateShift(e, ub) ==
    LET s  == e.s_
        result == Add(Rotl64(Add(s[1], s[4]), 23, ub), s[1])
        a2 == Xor(s[3], s[1])
        a3 == Xor(s[4], s[2])
        a1 == Xor(s[2], a2)
        a0 == Xor(s[1], a3)
        t  == Shl(a1, 17)
    IN  [eng |-> [e EXCEPT !.s_ = <<a0, a1, Xor(a2, t), Rotl64(a3, 45, ub)>>],
         ret |-> result]

Xoshiro_Advance(e, ub) ==
    LET s  == e.s_
        result == Add(Rotl64(Add(s[1], s[4]), 23, ub), s[1])
        t  == Shl(s[2], 17)
        a2 == Xor(s[3], s[1])       \* s_[2] ^= s_[0]
        a3 == Xor(s[4], s[2])       \* s_[3] ^= s_[1]
        a1 == Xor(s[2], a2)         \* s_[1] ^= s_[2]
        a0 == Xor(s[1], a3)         \* s_[0] ^= s_[3]
    IN  [eng |-> [e EXCEPT !.s_ = <<a0, a1, Xor(a2, t), Rotl64(a3, 45, ub)>>],
         ret |-> result]

\* the virtual call RNG<T>::Advance()
Advance(kd, e, ub) ==
    CASE kd = "LCG" -> LCG_Advance(e)
      [] kd = "PCG32" -> PCG32_Advance(e, ub)
      [] kd = "PCG64" -> PCG64_Advance(e, ub)
      [] kd = "SplitMix64" -> SplitMix64_Advance(e)
      [] kd = "Xoshiro256PlusPlus" -> Xoshiro_Advance(e, ub)

\* the instance after m primitive draws
RECURSIVE AdvanceN(_, _, _, _)
AdvanceN(kd, e, ub, m) ==
    IF m = 0 THEN e ELSE AdvanceN(kd, Advance(kd, e, ub).eng, ub, m - 1)

----------------------------------------------------------------------------
(* Bounds of the exploration                                               *)

\* most plain Next() calls made on one instance
MaxDraws == 2

\* most primitive draws one call of the integer distribution makes
MaxDistDraws == 2

\* longest range handed to Shuffle
MaxLen == 3

\* the elements of a shuffled range are taken from 1..MaxVal
MaxVal == 3

\* cells past the end of a range that an overrunning loop may touch
MaxOverrun == 2

\* longest source range handed to Sample
MaxN == 3

\* largest sample size asked of Sample
MaxK == 2

\* most overwriting passes of Sample's loop in one call
MaxPasses == 4

----------------------------------------------------------------------------
(* Constructors                                                            *)

\* Values std::random_device may hand out (rd() is a 32-bit unsigned int).
Entropy == {Zero(4), FromNat(7, 4)}

\* The seeded constructors take r, what rd() would give, only to show that
\* they do not use it: a member initialised by the constructor does not run
\* its default member initialiser "state_ = rd()".

LCG_Seeded(seed, mul, inc, mod) ==
    [state_ |-> seed, mul_ |-> mul, inc_ |-> inc, mod_ |-> mod]

LCG_Default(r, mul, inc, mod) ==
    [state_ |-> Ext(r[1], 8), mul_ |-> mul, inc_ |-> inc, mod_ |-> mod]

PCG32_Seeded(seed, ub) == PCG32_Advance([state_ |-> seed], ub).eng

PCG32_Default(r, ub) == PCG32_Advance([state_ |-> Ext(r[1], 8)], ub).eng

PCG64_Seeded(seed, ub) == PCG64_Advance([state_ |-> Ext(seed, 16)], ub).eng

PCG64_Default(r, ub) ==
    PCG64_Advance([state_ |-> Add(Shl(Ext(r[1], 16), 64), Ext(r[2], 16))], ub).eng

SplitMix64_Seeded(seed) == [state_ |-> seed]

SplitMix64_Default(r) == [state_ |-> Ext(r[1], 8)]

\* Xoshiro256PlusPlus(UniformRandomBitGenerator&&), fed a SplitMix64
Xoshiro_From(sm) ==
    LET d1 == SplitMix64_Advance(sm)
        d2 == SplitMix64_Advance(d1.eng)
    IN  [s_ |-> <<d1.ret, Shr(d1.ret, 32), d2.ret, Shr(d2.ret, 32)>>]

\* a seeded constructor that puts the seed into the first word, without the
\* SplitMix64 expansion
Xoshiro_SeededDirect(seed, ub) ==
    Xoshiro_Advance([s_ |-> <<seed, Zero(8), Zero(8), Zero(8)>>], ub).eng

Xoshiro_Seeded(seed, ub) == Xoshiro_Advance(Xoshiro_From(SplitMix64_Seeded(seed)), ub).eng

Xoshiro_Default(r, ub) == Xoshiro_Advance(Xoshiro_From(SplitMix64_Default(r)), ub).eng

\* E()
ConstructDefault(kd, r, ub) ==
    CASE kd = "LCG" -> LCG_Default(r, DefaultMul, DefaultInc, DefaultMod)
      [] kd = "PCG32" -> PCG32_Default(r, ub)
      [] kd = "PCG64" -> PCG64_Default(r, ub)
      [] kd = "SplitMix64" -> SplitMix64_Default(r)
      [] kd = "Xoshiro256PlusPlus" -> Xoshiro_Default(r, ub)

\* a seeded constructor that lets the default member initialiser run.
ConstructFromEntropy(kd, seed, r, ub) == ConstructDefault(kd, r, ub)

\* E(seed)
Construct(kd, seed, r, ub) ==
    CASE kd = "LCG" -> LCG_Seeded(seed, DefaultMul, DefaultInc, DefaultMod)
      [] kd = "PCG32" -> PCG32_Seeded(seed, ub)
      [] kd = "PCG64" -> PCG64_Seeded(seed, ub)
      [] kd = "SplitMix64" -> SplitMix64_Seeded(seed)
      [] kd = "Xoshiro256PlusPlus" -> Xoshiro_Seeded(seed, ub)

----------------------------------------------------------------------------
(* Values the variables hold while the operation they belong to is idle     *)

NoEngine == [state_ |-> <<>>]

NoCall == [op |-> "none"]

----------------------------------------------------------------------------
(* Two instances built alike and stepped together                          *)

\* PCG32(PCG32Rot0Seed) leaves state_ = 5, whose draw rotates by 0;
\* PCG64(12) leaves a state_ whose top six bits are 0
PCG32Rot0Seed == Hex(<<\h5C, \h8D, \h63, \h5A, \h1E, \h6A, \h1B, \h4E>>)

\* SplitMix64 seeds whose first, and whose second, draw returns 0
ZeroDraw1 == Sub(Zero(8), GoldenGamma)

ZeroDraw2 == Sub(ZeroDraw1, GoldenGamma)

Seeds == {Zero(8), FromNat(1, 8), FromNat(12, 8), FromNat(42, 8), Not(Zero(8)),
          PCG32Rot0Seed, ZeroDraw1, ZeroDraw2}

\* multiplier, increment, modulo handed to the LCG constructors that take them
LcgParams == {<<FromNat(5, 8), FromNat(3, 8), FromNat(1000003, 8)>>,
              <<Not(Zero(8)), FromNat(1, 8), Not(Zero(8))>>}

InitEngines ==
    /\ ctor = "none"
    /\ kind = "none"
    /\ g = NoEngine
    /\ h = NoEngine
    /\ out = <<>>
    /\ outh = <<>>
    /\ draws = 0
    /\ call = NoCall
    /\ mem = <<>>
    /\ mem0 = <<>>
    /\ len = 0
    /\ i = Zero(8)
    /\ pc = "idle"
    /\ span = 0
    /\ n = 0
    /\ k = 0
    /\ weight = "unit"
    /\ reservoir = <<>>
    /\ pool = <<>>

\* E g(seed); E h(seed);  Each is built from the same seed, with whatever its
\* own random_device and its own build would give.
ConstructSeeded ==
    /\ ctor = "none"
    /\ \E kd \in EngineKinds, seed \in Seeds :
       \E built \in {{Construct(kd, seed, r, ub) :
                         r \in Entropy \X Entropy, ub \in ShiftOutcomes}} :
       \E eg \in built, eh \in built :
          /\ kind' = kd
          /\ g' = eg
          /\ h' = eh
    /\ ctor' = "seeded"
    /\ UNCHANGED <<out, outh, draws, call, mem, mem0, len, i, pc, span, n, k, weight,
                   reservoir, pool>>

\* E g; E h;
ConstructDefault2 ==
    /\ ctor = "none"
    /\ \E kd \in EngineKinds :
       \E built \in {{ConstructDefault(kd, r, ub) :
                         r \in Entropy \X Entropy, ub \in ShiftOutcomes}} :
       \E eg \in built, eh \in built :
          /\ kind' = kd
          /\ g' = eg
          /\ h' = eh
    /\ ctor' = "default"
    /\ UNCHANGED <<out, outh, draws, call, mem, mem0, len, i, pc, span, n, k, weight,
                   reservoir, pool>>

\* LCG g(seed, a, c, m); LCG h(seed, a, c, m);
ConstructLcgSeeded ==
    /\ ctor = "none"
    /\ \E seed \in Seeds, p \in LcgParams :
          /\ g' = LCG_Seeded(seed, p[1], p[2], p[3])
          /\ h' = LCG_Seeded(seed, p[1], p[2], p[3])
    /\ kind' = "LCG"
    /\ ctor' = "seeded"
    /\ UNCHANGED <<out, outh, draws, call, mem, mem0, len, i, pc, span, n, k, weight,
                   reservoir, pool>>

\* LCG g(a, c, m); LCG h(a, c, m);
ConstructLcgDefault ==
    /\ ctor = "none"
    /\ \E p \in LcgParams, rg \in Entropy \X Entropy, rh \in Entropy \X Entropy :
          /\ g' = LCG_Default(rg, p[1], p[2], p[3])
          /\ h' = LCG_Default(rh, p[1], p[2], p[3])
    /\ kind' = "LCG"
    /\ ctor' = "default"
    /\ UNCHANGED <<out, outh, draws, call, mem, mem0, len, i, pc, span, n, k, weight,
                   reservoir, pool>>

\* Xoshiro256PlusPlus g(SplitMix64{seed}), h likewise: the constructor that
\* takes a generator, which makes no Advance(); call.pre keeps the generator
ConstructFromGenerator ==
    /\ ctor = "none"
    /\ \E seed \in Seeds : \E sm \in {SplitMix64_Seeded(seed)} :
          /\ g' = Xoshiro_From(sm)
          /\ h' = Xoshiro_From(sm)
          /\ call' = [op |-> "Xoshiro256PlusPlus(g)", pre |-> sm]
    /\ kind' = "Xoshiro256PlusPlus"
    /\ ctor' = "generator"
    /\ UNCHANGED <<out, outh, draws, mem, mem0, len, i, pc, span, n, k, weight, reservoir,
                   pool>>

\* g.Next(); h.Next();
NextBoth ==
    /\ ctor # "none"
    /\ draws < MaxDraws
    /\ \E dg \in {Advance(kind, g, ub) : ub \in ShiftOutcomes},
          dh \in {Advance(kind, h, ub) : ub \in ShiftOutcomes} :
              /\ g' = dg.eng
              /\ out' = dg.ret
              /\ h' = dh.eng
              /\ outh' = dh.ret
    /\ draws' = draws + 1
    /\ UNCHANGED <<ctor, kind, call, mem, mem0, len, i, pc, span, n, k, weight, reservoir,
                   pool>>

\* E::GetSeed(): the state, 64 bits of it (128 for PCG64)
GetSeed(e) == e.state_

\* E f(g.GetSeed()), f held in h: the constructor's parameter is a uint64_t,
\* which keeps the low 64 bits of PCG64's seed.  Draws are counted anew from
\* here.
Reseed ==
    /\ ctor \in {"seeded", "default"}
    /\ kind # "Xoshiro256PlusPlus"
    /\ \E r \in Entropy \X Entropy, ub \in ShiftOutcomes :
          h' = Construct(kind, Trunc(GetSeed(g), 8), r, ub)
    /\ ctor' = "reseeded"
    /\ draws' = 0
    /\ out' = <<>>
    /\ outh' = <<>>
    /\ UNCHANGED <<kind, g, call, mem, mem0, len, i, pc, span, n, k, weight, reservoir,
                   pool>>

NextEngines ==
    \/ ConstructSeeded
    \/ ConstructDefault2
    \/ ConstructLcgSeeded
    \/ ConstructLcgDefault
    \/ ConstructFromGenerator
    \/ NextBoth
    \/ Reseed

SpecEngines == InitEngines /\ [][NextEngines]_vars

\* C1: two instances of one engine type constructed with the same explicit
\* seed (and the same parameters) hold equal state and have returned equal
\* values after every number of Next() calls made on both.
Determinism == (ctor = "seeded") => (g = h /\ out = outh)

\* both copies of a seeded engine have been drawn from twice
DeterminismWitness ==
    /\ ctor = "seeded"
    /\ draws = 2
    /\ kind = "Xoshiro256PlusPlus"
    /\ out = outh
    /\ out # <<>>

\* C12: for every engine with GetSeed() and every reachable instance E, an
\* engine of the same type constructed from E.GetSeed() returns, call for
\* call, the values E returns from that point on.
SeedRoundTrip == (ctor = "reseeded") => (out = outh)

\* C13: each Next() on an LCG returns the state after the advance (GetSeed()
\* read right afterwards equals the value returned), so an LCG with the
\* default parameters and state 1 returns 6458928179451363983.
LcgReturnsNewState ==
    [][(kind = "LCG" /\ draws' = draws + 1) =>
          /\ out' = GetSeed(g')
          /\ (GetSeed(g) = FromNat(1, 8) /\ g.mul_ = DefaultMul /\ g.inc_ = DefaultInc
                 /\ g.mod_ = DefaultMod) =>
                (out' = Dec(<<6,4,5,8,9,2,8,1,7,9,4,5,1,3,6,3,9,8,3>>, 8))]_vars

\* LCG g(1); g.Next() has returned 6458928179451363983
LcgReturnsNewStateWitness ==
    /\ ctor = "seeded"
    /\ kind = "LCG"
    /\ draws = 1
    /\ g.mod_ = DefaultMod
    /\ out = Hex(<<\h59, \hA2, \hB8, \hF5, \h55, \hF5, \h82, \h8F>>)
    /\ GetSeed(g) = out

\* C21: PCG32 output is XSH-RR of the pre-advance state s: Advance() returns
\* the low 32 bits of ((s >> 18) XOR s) >> 27 rotated right by s >> 59 (bit j
\* of the result is bit (j + count) mod 32 of that value, so a count of 0
\* gives the value itself), and sets the state to
\* (6364136223846793005 * s + 1442695040888963407) mod 2^64 (the constants
\* are 0x5851F42D4C957F2D and 0x14057B7EF767814F).
Pcg32IsXshRr ==
    [][(kind = "PCG32" /\ draws' = draws + 1) =>
          LET s == g.state_
              v == Trunc(Shr(Xor(Shr(s, 18), s), 27), 4)
              c == ToNat(Shr(s, 59))
              Bit(j) == (v[(j \div 8) + 1] \div (2 ^ (j % 8))) % 2
              Byte(l) == Bit((8 * l + c) % 32) + 2 * Bit((8 * l + 1 + c) % 32)
                           + 4 * Bit((8 * l + 2 + c) % 32) + 8 * Bit((8 * l + 3 + c) % 32)
                           + 16 * Bit((8 * l + 4 + c) % 32) + 32 * Bit((8 * l + 5 + c) % 32)
                           + 64 * Bit((8 * l + 6 + c) % 32) + 128 * Bit((8 * l + 7 + c) % 32)
          IN  /\ out' = <<Byte(0), Byte(1), Byte(2), Byte(3)>>
              /\ g'.state_ = Add(Mul(Hex(<<\h58, \h51, \hF4, \h2D, \h4C, \h95, \h7F, \h2D>>), s),
                                 Hex(<<\h14, \h05, \h7B, \h7E, \hF7, \h67, \h81, \h4F>>))]_vars

\* PCG32 has drawn from state 5, whose rotation count is 0
Pcg32IsXshRrWitness ==
    /\ kind = "PCG32"
    /\ draws = 1
    /\ g.state_ = Add(Mul(MUL64, FromNat(5, 8)), INC64)
    /\ out # <<>>

XoshiroAdvanceExact ==
    [][(kind = "Xoshiro256PlusPlus" /\ draws' = draws + 1) =>
          LET a == g.s_[1]
              b == g.s_[2]
              c == g.s_[3]
              d == g.s_[4]
              Bit(v, j) == (v[(j \div 8) + 1] \div (2 ^ (j % 8))) % 2
              At(v, r, j) == Bit(v, (j + 64 - r) % 64)
              Byte(v, r, l) ==
                  At(v, r, 8 * l) + 2 * At(v, r, 8 * l + 1) + 4 * At(v, r, 8 * l + 2)
                      + 8 * At(v, r, 8 * l + 3) + 16 * At(v, r, 8 * l + 4)
                      + 32 * At(v, r, 8 * l + 5) + 64 * At(v, r, 8 * l + 6)
                      + 128 * At(v, r, 8 * l + 7)
              Rotl(v, r) == [l \in 1..8 |-> Byte(v, r, l - 1)]
          IN  /\ out' = Add(Rotl(Add(a, d), 23), a)
              /\ g'.s_ = <<Xor(Xor(a, d), b), Xor(Xor(b, c), a),
                           Xor(Xor(c, a), Shl(b, 17)), Rotl(Xor(d, b), 45)>>]_vars

\* a seeded Xoshiro256++ has drawn twice
XoshiroAdvanceExactWitness ==
    /\ kind = "Xoshiro256PlusPlus"
    /\ ctor = "seeded"
    /\ draws = 2
    /\ Len(out) = 8
    /\ g.s_[2] # Zero(8)

\* C24: after k draws from SplitMix64(seed) the state (GetSeed()) equals
\* (seed + k * 0x9E3779B97F4A7C15) mod 2^64, and the k-th output is
\* z3 XOR (z3 >> 31), where z1 is that state,
\* z2 = ((z1 XOR (z1 >> 30)) * 0xBF58476D1CE4E5B9) mod 2^64 and
\* z3 = ((z2 XOR (z2 >> 27)) * 0x94D049BB133111EB) mod 2^64.
SplitMixRecurrence ==
    [][(kind' = "SplitMix64" /\ ctor' = "seeded") =>
          \E gamma \in {Hex(<<\h9E, \h37, \h79, \hB9, \h7F, \h4A, \h7C, \h15>>)} :
          \E z1 \in {GetSeed(g')} :
          \E z2 \in {Mul(Xor(z1, Shr(z1, 30)), Hex(<<\hBF, \h58, \h47, \h6D, \h1C, \hE4, \hE5, \hB9>>))} :
          \E z3 \in {Mul(Xor(z2, Shr(z2, 27)), Hex(<<\h94, \hD0, \h49, \hBB, \h13, \h31, \h11, \hEB>>))} :
          \E kg \in {Mul(FromNat(draws', 8), gamma)} :
              /\ \E seed \in Seeds : z1 = Add(seed, kg)
              /\ (draws' = draws + 1) => (out' = Xor(z3, Shr(z3, 31)))]_vars

\* SplitMix64(42) has drawn twice
SplitMixRecurrenceWitness ==
    /\ kind = "SplitMix64"
    /\ ctor = "seeded"
    /\ draws = 2
    /\ Len(out) = 8
    /\ GetSeed(g) = Add(FromNat(42, 8), Add(GoldenGamma, GoldenGamma))

\* C29: Xoshiro256++ never reaches the all-zero state: for every seed, after
\* seeded construction (the SplitMix64 expansion and the warm-up Advance of
\* the constructor) and after any number of draws, at least one of the four
\* state words is not zero.
XoshiroNeverZero ==
    (kind = "Xoshiro256PlusPlus" /\ ctor = "seeded") =>
        /\ g.s_ # <<Zero(8), Zero(8), Zero(8), Zero(8)>>
        /\ h.s_ # <<Zero(8), Zero(8), Zero(8), Zero(8)>>

\* the instance seeded with the value whose first SplitMix64 output is 0 (its
\* first two words are 0 before the warm-up) has made a draw
XoshiroNeverZeroWitness ==
    /\ kind = "Xoshiro256PlusPlus"
    /\ ctor = "seeded"
    /\ draws = 1
    /\ Xoshiro_From(SplitMix64_Seeded(ZeroDraw1)).s_[1] = Zero(8)
    /\ \E ub \in ShiftOutcomes :
          g = AdvanceN("Xoshiro256PlusPlus", Xoshiro_Seeded(ZeroDraw1, ub), ub, 1)

\* C20: the LCG recurrence is exact modular arithmetic: one advance sets the
\* state to (a * s + c) mod m computed over the unbounded integers (here in
\* 128 bits, which hold a * s + c in full); the 64-bit wrap-around of
\* a * s + c never changes the result.
LcgExactModular ==
    [][(kind = "LCG" /\ draws' = draws + 1) =>
          (GetSeed(g') = Trunc(Mod(Add(Mul(Ext(g.mul_, 16), Ext(g.state_, 16)),
                                       Ext(g.inc_, 16)),
                                   Ext(g.mod_, 16)), 8))]_vars

\* C18: the seeding step of Xoshiro256++ fills the four state words with the
\* low and high 32-bit halves of two successive SplitMix64 outputs t1, t2
\* (s0 = t1 mod 2^32, s1 = t1 >> 32, s2 = t2 mod 2^32, s3 = t2 >> 32), so
\* every word is below 2^32 before the first advance.
XoshiroSeedHalves ==
    (ctor = "generator" /\ draws = 0) =>
        LET d1 == SplitMix64_Advance(call.pre)
            d2 == SplitMix64_Advance(d1.eng)
        IN  /\ g.s_ = <<Ext(Trunc(d1.ret, 4), 8), Shr(d1.ret, 32),
                        Ext(Trunc(d2.ret, 4), 8), Shr(d2.ret, 32)>>
            /\ \A j \in 1..4 : Less(g.s_[j], Shl(FromNat(1, 8), 32))

----------------------------------------------------------------------------
(* RNG<T>::Next(T a, T b) and the calls that delegate to it                *)

\* std::uniform_int_distribution<> is std::uniform_int_distribution<int>:
\* its bounds and its result are ints, held here as 4-limb two's complement.

\* conversion of a T to int keeps the low 32 bits
ToInt(x) == Trunc(x, 4)

\* conversion of an int to the unsigned T of wl limbs extends the sign
FromInt(v, wl) ==
    [j \in 1..wl |-> IF j <= 4 THEN v[j] ELSE IF v[4] >= 128 THEN 255 ELSE 0]

\* x < y on ints
IntLess(x, y) ==
    Less([x EXCEPT ![4] = (@ + 128) % 256], [y EXCEPT ![4] = (@ + 128) % 256])

\* The ints a distribution is taken to return: every int from 0 to SmallMax
\* (every position of the ranges explored), the ends of the int range and a
\* few values between; the bounds themselves are added by DistOutcomes.
SmallMax == MaxLen + MaxN + MaxK

IntSamples ==
    {FromNat(v, 4) : v \in 0..SmallMax}
        \cup {FromNat(12, 4), Shl(FromNat(1, 4), 31), Not(Shl(FromNat(1, 4), 31)),
              Not(Zero(4)), Sub(Zero(4), FromNat(7, 4))}

\* dist(lo, hi)(*this): what it returns and how many primitive draws it
\* makes.  With lo <= hi the result lies in [lo, hi] after one draw or more.
\* With lo > hi the precondition of the distribution is broken and the
\* behaviour undefined: the library draws and returns some int, or a build
\* with assertions enabled aborts.
DistOutcomes(lo, hi) ==
    IF ~IntLess(hi, lo)
    THEN {[status |-> "returned", ret |-> v, m |-> d] :
            v \in {x \in IntSamples \cup {lo, hi} : ~IntLess(x, lo) /\ ~IntLess(hi, x)},
            d \in 1..MaxDistDraws}
    ELSE {[status |-> "returned", ret |-> v, m |-> d] :
            v \in IntSamples \cup {lo, hi}, d \in 1..MaxDistDraws}
            \cup {[status |-> "aborted", ret |-> lo, m |-> 0]}

\* T Next(T a, T b), T of wl limbs: the value returned and the draws made
Next_a_b(wl, a, b) ==
    LET b1 == Sub(b, FromNat(1, wl))
    IN  IF Greater(a, b1)
        THEN {[status |-> "returned", ret |-> a, m |-> 0]}
        ELSE {[status |-> o.status, ret |-> FromInt(o.ret, wl), m |-> o.m] :
                o \in DistOutcomes(ToInt(a), ToInt(b1))}

\* T Next(T n)
Next_n(wl, nn) == Next_a_b(wl, Zero(wl), nn)

\* T operator()(T n)
Call_n(wl, nn) == Next_n(wl, nn)

\* T operator()(T a, T b)
Call_a_b(wl, a, b) == Next_a_b(wl, a, b)

\* the instance after each number of primitive draws a call may make
Drawn(kd, e, ub) == [m \in 0..MaxDistDraws |-> AdvanceN(kd, e, ub, m)]

----------------------------------------------------------------------------
(* One instance and the ranged calls on it                                 *)

NextSeed == FromNat(42, 8)

\* arguments tried, as values of the T of wl limbs
NextArgs(wl) ==
    {FromNat(v, wl) : v \in {0, 3, 5, 10}}
        \cup {Shl(FromNat(1, wl), 31), Add(Shl(FromNat(1, wl), 31), FromNat(5, wl)),
              Sub(Zero(wl), FromNat(10, wl)), Not(Zero(wl))}
        \cup (IF wl = 8
              THEN {Shl(FromNat(1, wl), 32), Add(Shl(FromNat(1, wl), 32), FromNat(5, wl))}
              ELSE {})

InitNext ==
    /\ ctor = "seeded"
    /\ \/ \E kd \in EngineKinds, ub \in ShiftOutcomes :
             /\ kind = kd
             /\ g = Construct(kd, NextSeed, <<Zero(4), Zero(4)>>, ub)
       \/ \E p \in LcgParams :
             /\ kind = "LCG"
             /\ g = LCG_Seeded(NextSeed, p[1], p[2], p[3])
    /\ h = NoEngine
    /\ out = <<>>
    /\ outh = <<>>
    /\ draws = 0
    /\ call = NoCall
    /\ mem = <<>>
    /\ mem0 = <<>>
    /\ len = 0
    /\ i = Zero(8)
    /\ pc = "idle"
    /\ span = 0
    /\ n = 0
    /\ k = 0
    /\ weight = "unit"
    /\ reservoir = <<>>
    /\ pool = <<>>

\* static constexpr T min() / max(): the limits of the unsigned T of wl limbs
RNG_min(wl) == Zero(wl)

RNG_maxOfInt(wl) == Shr(Not(Zero(wl)), 1)

RNG_max(wl) == Not(Zero(wl))

\* g.Next()
PlainNext ==
    /\ call.op = "none"
    /\ draws < MaxDraws
    /\ \E ub \in ShiftOutcomes :
          \E d \in {Advance(kind, g, ub)} :
              /\ g' = d.eng
              /\ out' = d.ret
    /\ draws' = draws + 1
    /\ UNCHANGED <<ctor, kind, h, outh, call, mem, mem0, len, i, pc, span, n, k, weight,
                   reservoir, pool>>

\* g(): T operator()() { return Next(); }
PlainCall ==
    /\ call.op = "none"
    /\ draws < MaxDraws
    /\ \E ub \in ShiftOutcomes :
          \E d \in {Advance(kind, g, ub)} :
              /\ g' = d.eng
              /\ out' = d.ret
    /\ draws' = draws + 1
    /\ UNCHANGED <<ctor, kind, h, outh, call, mem, mem0, len, i, pc, span, n, k, weight,
                   reservoir, pool>>

\* the call op with arguments a and b ends with outcome o
Finish(op, a, b, o, after) ==
    /\ g' = after[o.m]
    /\ call' = [op |-> op, a |-> a, b |-> b, status |-> o.status, ret |-> o.ret, pre |-> g]
    /\ out' = IF o.status = "returned" THEN o.ret ELSE out
    /\ UNCHANGED <<ctor, kind, h, outh, draws, mem, mem0, len, i, pc, span, n, k, weight,
                   reservoir, pool>>

\* g.Next(n)
CallNext_n ==
    /\ call.op = "none"
    /\ \E ub \in ShiftOutcomes :
          \E wl \in {ResultLimbs(kind)}, after \in {Drawn(kind, g, ub)} :
              \E nn \in NextArgs(wl) : \E o \in Next_n(wl, nn) :
                 Finish("Next(n)", Zero(wl), nn, o, after)

\* g(n)
CallOp_n ==
    /\ call.op = "none"
    /\ \E ub \in ShiftOutcomes :
          \E wl \in {ResultLimbs(kind)}, after \in {Drawn(kind, g, ub)} :
              \E nn \in NextArgs(wl) : \E o \in Call_n(wl, nn) :
                 Finish("operator()(n)", Zero(wl), nn, o, after)

\* g.Next(a, b)
CallNext_a_b ==
    /\ call.op = "none"
    /\ \E ub \in ShiftOutcomes :
          \E wl \in {ResultLimbs(kind)}, after \in {Drawn(kind, g, ub)} :
              \E a \in NextArgs(wl), b \in NextArgs(wl) : \E o \in Next_a_b(wl, a, b) :
                 Finish("Next(a, b)", a, b, o, after)

\* g(a, b)
CallOp_a_b ==
    /\ call.op = "none"
    /\ \E ub \in ShiftOutcomes :
          \E wl \in {ResultLimbs(kind)}, after \in {Drawn(kind, g, ub)} :
              \E a \in NextArgs(wl), b \in NextArgs(wl) : \E o \in Call_a_b(wl, a, b) :
                 Finish("operator()(a, b)", a, b, o, after)

\* g.GetSeed(), on an engine that has it
CallGetSeed ==
    /\ call.op = "none"
    /\ kind # "Xoshiro256PlusPlus"
    /\ call' = [op |-> "GetSeed()", a |-> Zero(8), b |-> Zero(8), status |-> "returned",
                ret |-> GetSeed(g), pre |-> g]
    /\ UNCHANGED <<ctor, kind, g, h, out, outh, draws, mem, mem0, len, i, pc, span, n, k,
                   weight, reservoir, pool>>

NextNext ==
    \/ PlainNext
    \/ PlainCall
    \/ CallGetSeed
    \/ CallNext_n
    \/ CallOp_n
    \/ CallNext_a_b
    \/ CallOp_a_b

SpecNext == InitNext /\ [][NextNext]_vars

\* the calls that take one bound, and those that take two
OneBound == {"Next(n)", "operator()(n)"}

TwoBounds == {"Next(a, b)", "operator()(a, b)"}

\* C28: across any sequence of operations on an engine the multiplier,
\* increment and modulus keep their construction-time values, GetSeed()
\* leaves the state unchanged, and after every draw operation the state is
\* the result of applying the engine's advance recurrence a whole number of
\* times to the state before it.
EngineFrame ==
    /\ [][/\ (kind = "LCG") =>
                (g'.mul_ = g.mul_ /\ g'.inc_ = g.inc_ /\ g'.mod_ = g.mod_)
          /\ (call'.op = "GetSeed()") => (g' = g /\ call'.ret = g.state_)
          /\ (draws' = draws + 1) =>
                (\E ub \in ShiftOutcomes : g' = AdvanceN(kind, g, ub, 1))
          /\ (call'.op \in OneBound \cup TwoBounds) => (call'.pre = g)]_vars
    /\ [](call.op \in OneBound \cup TwoBounds =>
             \/ g = call.pre
             \/ \E ub \in ShiftOutcomes : \E e1 \in {AdvanceN(kind, call.pre, ub, 1)} :
                   \/ g = e1
                   \/ \E m \in 2..MaxDistDraws : g = AdvanceN(kind, e1, ub, m - 1))

\* an LCG built with its own parameters has made a ranged draw that advanced it
EngineFrameWitness ==
    /\ kind = "LCG"
    /\ g.mul_ # DefaultMul
    /\ call.op = "Next(a, b)"
    /\ call.status = "returned"
    /\ g # call.pre

\* C16: for every engine and any number of draws, every value returned by
\* Next() and by operator()() lies in [min(), max()], the limits of the
\* engine's result type.
NextWithinLimits ==
    (call.op = "none" /\ draws >= 1) =>
        /\ ~Less(Ext(out, 8), Ext(RNG_min(ResultLimbs(kind)), 8))
        /\ ~Less(Ext(RNG_max(ResultLimbs(kind)), 8), Ext(out, 8))

\* a plain draw has returned a value above the middle of the result type
NextWithinLimitsWitness ==
    /\ call.op = "none"
    /\ draws >= 1
    /\ Less(RNG_maxOfInt(ResultLimbs(kind)), out)

\* C2: for every engine and all a < b, Next(a, b) returns v with
\* a <= v < b; consequently Next(n) < n for every positive n.
NextInRange ==
    (call.op # "none" /\ Less(call.a, call.b)) =>
        /\ call.status = "returned"
        /\ ~Less(call.ret, call.a)
        /\ Less(call.ret, call.b)

\* C3: Next(0) and operator()(0) return 0 and perform no draw: the engine
\* state after the call equals the state before it.
NextZeroNoDraw ==
    (call.op \in OneBound /\ call.b = Zero(Len(call.b))) =>
        /\ call.status = "returned"
        /\ call.ret = call.b
        /\ g = call.pre

\* C4: for all a >= b, Next(a, b) returns exactly a and leaves the engine
\* state unchanged.
NextEmptyRange ==
    (call.op \in TwoBounds /\ ~Less(call.a, call.b)) =>
        /\ call.status = "returned"
        /\ call.ret = call.a
        /\ g = call.pre

----------------------------------------------------------------------------
(* Shuffle(begin, end, g)                                                  *)

\* Shuffle and Sample take the generator by const reference and call its
\* non-const members; they are modelled as built with that qualifier dropped.

\* a size_t
Size(v) == FromNat(v, 8)

\* conversion of a size_t argument to the T of wl limbs (wl is 4 or 8)
SizeToT(x, wl) == Trunc(x, wl)

\* one engine of each result width
RandKinds == {"PCG32", "SplitMix64"}

\* the elements of a sequence, with their multiplicities
BagOf(m) == [v \in {m[j] : j \in DOMAIN m} |-> Cardinality({j \in DOMAIN m : m[j] = v})]

\* an assignment in place of the exchange
SwapLossy(m, a, b) == [m EXCEPT ![a + 1] = m[b + 1]]

\* std::swap(*(begin + a), *(begin + b))
Swap(m, a, b) == [m EXCEPT ![a + 1] = m[b + 1], ![b + 1] = m[a + 1]]

\* length - 2, in size_t
LoopBound(length) == Sub(length, Size(2))

\* One pass of the loop body at index ii, inside the range: the cells after
\* the swap and the primitive draws g.Next(ii, length) made.
ShuffleSwaps(wl, m, ii, length) ==
    {[mem |-> Swap(m, ToNat(ii), ToNat(o.ret)), m |-> o.m] :
        o \in {x \in Next_a_b(wl, SizeToT(ii, wl), SizeToT(length, wl)) :
                 x.status = "returned"}}

\* every arrangement a call of Shuffle that has reached index ii with cells m
\* can return (for length >= 2)
RECURSIVE ShuffleFinals(_, _, _, _)
ShuffleFinals(wl, m, ii, length) ==
    IF ii = LoopBound(length) THEN {m}
    ELSE UNION {ShuffleFinals(wl, s.mem, Add(ii, Size(1)), length) :
                  s \in ShuffleSwaps(wl, m, ii, length)}

InitShuffle ==
    /\ ctor = "seeded"
    /\ \E kd \in RandKinds, ub \in ShiftOutcomes :
          /\ kind = kd
          /\ g = Construct(kd, NextSeed, <<Zero(4), Zero(4)>>, ub)
    /\ h = NoEngine
    /\ out = <<>>
    /\ outh = <<>>
    /\ draws = 0
    /\ call = NoCall
    /\ len \in -1..MaxLen
    /\ mem \in [1..(IF len > 0 THEN len ELSE 0) -> 1..MaxVal]
    /\ mem0 = mem
    /\ i = Zero(8)
    /\ pc = "shuffle"
    /\ span = 0
    /\ n = 0
    /\ k = 0
    /\ weight = "unit"
    /\ reservoir = <<>>
    /\ pool = <<>>

\* an entry without the test of line 86
ShuffleCallUnguarded ==
    /\ pc = "shuffle"
    /\ pc' = "loop"
    /\ i' = Zero(8)
    /\ UNCHANGED <<ctor, kind, g, h, out, outh, draws, call, mem, mem0, len, span, n, k,
                   weight, reservoir, pool>>

\* if (begin >= end) return; const size_t length = end - begin; size_t i = 0
ShuffleCall ==
    /\ pc = "shuffle"
    /\ pc' = IF len <= 0 THEN "shuffled" ELSE "loop"
    /\ i' = Zero(8)
    /\ UNCHANGED <<ctor, kind, g, h, out, outh, draws, call, mem, mem0, len, span, n, k,
                   weight, reservoir, pool>>

\* the loop body at an index inside the range
ShuffleStep ==
    /\ pc = "loop"
    /\ i # LoopBound(Size(len))
    /\ Less(i, Size(len))
    /\ \E ub \in ShiftOutcomes :
       \E wl \in {ResultLimbs(kind)}, after \in {Drawn(kind, g, ub)} :
       \E s \in ShuffleSwaps(wl, mem, i, Size(len)) :
          /\ mem' = s.mem
          /\ g' = after[s.m]
    /\ i' = Add(i, Size(1))
    /\ UNCHANGED <<ctor, kind, h, out, outh, draws, call, mem0, len, pc, span, n, k,
                   weight, reservoir, pool>>

\* The loop body at an index past the end of the range: g.Next(i, length)
\* returns i, and the cell at begin + i, outside the range, is swapped with
\* itself.  The access is undefined; where it does not fault the cell keeps
\* what it held and the loop goes on.
ShuffleOverrun ==
    /\ pc = "loop"
    /\ i # LoopBound(Size(len))
    /\ ~Less(i, Size(len))
    /\ ToNat(i) < len + MaxOverrun
    /\ \E o \in Next_a_b(ResultLimbs(kind), SizeToT(i, ResultLimbs(kind)),
                        SizeToT(Size(len), ResultLimbs(kind))) :
          /\ o.m = 0
          /\ o.ret = SizeToT(i, ResultLimbs(kind))
    /\ i' = Add(i, Size(1))
    /\ UNCHANGED <<ctor, kind, g, h, out, outh, draws, call, mem, mem0, len, pc, span, n,
                   k, weight, reservoir, pool>>

\* the access past the end of the range faults
ShuffleFault ==
    /\ pc = "loop"
    /\ i # LoopBound(Size(len))
    /\ ~Less(i, Size(len))
    /\ pc' = "fault"
    /\ UNCHANGED <<ctor, kind, g, h, out, outh, draws, call, mem, mem0, len, i, span, n,
                   k, weight, reservoir, pool>>

\* i == length - 2: the loop ends and Shuffle returns
ShuffleReturn ==
    /\ pc = "loop"
    /\ i = LoopBound(Size(len))
    /\ pc' = "shuffled"
    /\ UNCHANGED <<ctor, kind, g, h, out, outh, draws, call, mem, mem0, len, i, span, n,
                   k, weight, reservoir, pool>>

NextShuffle ==
    \/ ShuffleCall
    \/ ShuffleStep
    \/ ShuffleOverrun
    \/ ShuffleFault
    \/ ShuffleReturn

SpecShuffle == InitShuffle /\ [][NextShuffle]_vars

ShuffleNoOp ==
    [][(len <= 0) =>
          /\ pc = "shuffle"
          /\ pc' = "shuffled"
          /\ mem' = mem
          /\ g' = g
          /\ draws' = draws]_vars

\* Shuffle has returned from a call on an inverted range
ShuffleNoOpWitness ==
    /\ len < 0
    /\ pc = "shuffled"
    /\ mem = mem0

\* C25: for every range of length n >= 1 (n = 1 and n = 2 included) Shuffle
\* performs exactly n - 1 draw-and-swap steps, for i = 0 .. n - 2, then
\* returns; every position it reads or writes lies in [0, n).  (i counts the
\* steps taken.)
ShuffleWithinBounds ==
    (len >= 1) =>
        /\ pc # "fault"
        /\ (pc = "loop") => (ToNat(i) <= len - 1)
        /\ (pc = "shuffled") => (ToNat(i) = len - 1)

\* the orderings of the sequence m
Orderings(m) == {[j \in DOMAIN m |-> m[p[j]]] : p \in Permutations(DOMAIN m)}

\* C6: for every range of n >= 2 distinct elements and every one of the n!
\* orderings, there is a sequence of results of Next(i, length) for which
\* Shuffle ends with that ordering.
ShuffleReachesAll ==
    (pc = "shuffle" /\ len >= 2 /\ Cardinality({mem[j] : j \in DOMAIN mem}) = len) =>
        (ShuffleFinals(ResultLimbs(kind), mem, Zero(8), Size(len)) = Orderings(mem))

----------------------------------------------------------------------------
(* RNG<T>::NextReal() and Sample(begin, end, k, g)                         *)

\* A double is held by the class of its value: of a draw u, "zero" (exactly
\* 0.0) or "open" (inside (0, 1)); of the weight w, "zero" or "unit"
\* (inside (0, 1], taken to be far enough from 0 that 1 - w < 1).

\* primitive draws std::generate_canonical<double, 53> makes on the engine:
\* 53 bits from draws of 32 or of 64 bits
RealDraws(kd) == IF kd = "PCG32" THEN 2 ELSE 1

\* double NextReal(): uniform_real_distribution over [0.0, nextafter(1.0, 0.0)).
\* The value is the scaled sum of the draws: 0.0 exactly when every draw
\* returned 0, inside (0, 1) otherwise.
NextReal(kd, e, ub) ==
    LET d1 == Advance(kd, e, ub)
        d2 == Advance(kd, d1.eng, ub)
        z1 == d1.ret = Zero(Len(d1.ret))
        z2 == d2.ret = Zero(Len(d2.ret))
    IN  IF RealDraws(kd) = 1
        THEN [eng |-> d1.eng, u |-> IF z1 THEN "zero" ELSE "open"]
        ELSE [eng |-> d2.eng, u |-> IF z1 /\ z2 THEN "zero" ELSE "open"]

\* std::exp(std::log(u) / k): log(0.0) is -inf and exp(-inf) is 0.0
WeightOf(u) == IF u = "zero" THEN "zero" ELSE "unit"

\* w *= std::exp(std::log(u) / k)
WeightTimes(wt, u) == IF wt = "zero" \/ u = "zero" THEN "zero" ELSE "unit"

\* What the conversion of a non-finite double to size_t gives.  It is
\* undefined; builds give 0 or 2^63 (x86-64 cvttsd2si) or 0 or SIZE_MAX
\* (a saturating conversion).
ConvResults == {Zero(8), Shl(Size(1), 63), Not(Zero(8))}

\* i += std::floor(std::log(u) / std::log(1 - w)) + 1, for ii <= nn: the
\* values i may take.  With u inside (0, 1) and w in (0, 1] the quotient is
\* finite and not negative, so i grows by 1 or more; every value past nn
\* ends the loop alike, so growth stops at nn + 1.  With u = 0.0 the quotient
\* is +inf (NaN for w = 1.0), with w = 0.0 it is -inf, and the sum is not
\* finite.
SkipTo(ii, nn, u, wt) ==
    IF u = "open" /\ wt = "unit"
    THEN {Add(ii, Size(s)) : s \in 1..(nn + 1 - ToNat(ii))}
    ELSE ConvResults

\* std::vector<Iterator> reservoir{std::min(n, k)}; std::iota(..., begin):
\* the positions begin + 0, begin + 1, ... held as offsets from begin
ReservoirOfK(nn, kk) == [j \in 1..kk |-> j - 1]

Reservoir0(nn, kk) == [j \in 1..(IF nn < kk THEN nn ELSE kk) |-> j - 1]

\* reservoir[g.Next(k)] = begin + i: the vector after the assignment and the
\* primitive draws g.Next(k) made
Overwrites(wl, res, i2, kk) ==
    {[reservoir |-> [res EXCEPT ![ToNat(o.ret) + 1] = ToNat(i2)], m |-> o.m] :
        o \in {x \in Next_n(wl, SizeToT(Size(kk), wl)) : x.status = "returned"}}

\* every vector a call of Sample can return once its loop stands at index ii
\* with vector res, when every real draw lies inside (0, 1)
RECURSIVE SampleFinals(_, _, _, _, _)
SampleFinals(wl, res, ii, nn, kk) ==
    UNION {IF Less(Size(nn), i2)
           THEN {res}
           ELSE UNION {SampleFinals(wl, s.reservoir, i2, nn, kk) :
                         s \in Overwrites(wl, res, i2, kk)} :
             i2 \in SkipTo(ii, nn, "open", "unit")}

SampleSeeds == {NextSeed, ZeroDraw1, ZeroDraw2}

InitSample ==
    /\ ctor = "seeded"
    /\ \E kd \in RandKinds, seed \in SampleSeeds, ub \in ShiftOutcomes :
          /\ kind = kd
          /\ g = Construct(kd, seed, <<Zero(4), Zero(4)>>, ub)
    /\ h = NoEngine
    /\ out = <<>>
    /\ outh = <<>>
    /\ draws = 0
    /\ call = NoCall
    /\ mem = <<>>
    /\ mem0 = <<>>
    /\ len = 0
    /\ i = Zero(8)
    /\ pc = "sample"
    /\ span \in -1..MaxN
    /\ n = 0
    /\ k \in 1..MaxK
    /\ weight = "unit"
    /\ reservoir = <<>>
    /\ pool = <<>>

\* Lines 101 to 111: n, the reservoir, then either the call of Shuffle on
\* the reservoir or the first weight.
SampleCall ==
    /\ pc = "sample"
    /\ n' = IF span > 0 THEN span ELSE 0
    /\ reservoir' = Reservoir0(n', k)
    /\ IF n' <= k
       THEN /\ mem' = reservoir'
            /\ mem0' = reservoir'
            /\ len' = Len(reservoir')
            /\ pc' = "shuffle"
            /\ UNCHANGED <<g, i, weight>>
       ELSE /\ \E ub \in ShiftOutcomes : \E r \in {NextReal(kind, g, ub)} :
                  /\ g' = r.eng
                  /\ weight' = WeightOf(r.u)
            /\ i' = Size(k)
            /\ pc' = "skip"
            /\ UNCHANGED <<mem, mem0, len>>
    /\ UNCHANGED <<ctor, kind, h, out, outh, draws, call, span, k, pool>>

\* Lines 113 to 117 with i <= n: the skip, the overwrite of a slot, the new
\* weight, and back to the label.  A run whose real draws lie inside (0, 1)
\* makes at most n - k such passes; one whose index was reset by a
\* non-finite skip can make more, and is followed for MaxPasses of them.
SampleOverwrite ==
    /\ pc = "skip"
    /\ draws < MaxPasses
    /\ draws' = draws + 1
    /\ \E ub \in ShiftOutcomes :
       \E wl \in {ResultLimbs(kind)}, r1 \in {NextReal(kind, g, ub)} :
       \E i2 \in SkipTo(i, n, r1.u, weight) :
          /\ ~Less(Size(n), i2)
          /\ \E after \in {Drawn(kind, r1.eng, ub)} :
             \E s \in Overwrites(wl, reservoir, i2, k) :
             \E r2 \in {NextReal(kind, after[s.m], ub)} :
                /\ reservoir' = s.reservoir
                /\ weight' = WeightTimes(weight, r2.u)
                /\ g' = r2.eng
          /\ i' = i2
    /\ UNCHANGED <<ctor, kind, h, out, outh, call, mem, mem0, len, pc, span, n, k, pool>>

\* Lines 113 to 119 with i > n: the skip, then return reservoir.
SampleReturn ==
    /\ pc = "skip"
    /\ \E ub \in ShiftOutcomes : \E r1 \in {NextReal(kind, g, ub)} :
       \E i2 \in SkipTo(i, n, r1.u, weight) :
          /\ Less(Size(n), i2)
          /\ g' = r1.eng
          /\ i' = i2
    /\ pc' = "done"
    /\ UNCHANGED <<ctor, kind, h, out, outh, draws, call, mem, mem0, len, span, n, k,
                   weight, reservoir, pool>>

\* Line 107: Shuffle has returned; return reservoir.
SampleShuffled ==
    /\ pc = "shuffled"
    /\ reservoir' = mem
    /\ pc' = "done"
    /\ UNCHANGED <<ctor, kind, g, h, out, outh, draws, call, mem, mem0, len, i, span, n,
                   k, weight, pool>>

NextSample ==
    \/ SampleCall
    \/ SampleOverwrite
    \/ SampleReturn
    \/ SampleShuffled
    \/ ShuffleCall
    \/ ShuffleStep
    \/ ShuffleOverrun
    \/ ShuffleFault
    \/ ShuffleReturn

SpecSample == InitSample /\ [][NextSample]_vars

\* the positions held by a result
Held(res) == {res[j] : j \in DOMAIN res}

\* C7: Sample holds, and returns, exactly min(n, k) positions, for every
\* source size n >= 0 and every k >= 1, whatever the generator outputs.
SampleSize == (pc # "sample") => (Len(reservoir) = IF n < k THEN n ELSE k)

\* Sample has returned k positions of a longer range, one of them written
\* by the loop
SampleSizeWitness ==
    /\ pc = "done"
    /\ n > k
    /\ Len(reservoir) = k
    /\ reservoir # Reservoir0(n, k)

\* C8: when k <= n, the k positions Sample returns are pairwise distinct,
\* after any number of reservoir overwrites.
SampleDistinct ==
    (pc = "done" /\ k <= n) => (Cardinality(Held(reservoir)) = Len(reservoir))

\* C9: for n > k >= 1, every source index in [0, n) appears in the result
\* of some execution of Sample, and every size-k subset of [0, n) is the
\* result set of some execution.  The executions are those SampleFinals
\* follows: the ones whose real draws lie inside (0, 1), on which the
\* behaviour of the loop is defined.
SampleReachesAll ==
    (pc = "sample" /\ span > k) =>
        LET finals == SampleFinals(ResultLimbs(kind), Reservoir0(span, k), Size(k), span, k)
        IN  /\ \A p \in 0..(span - 1) : \E res \in finals : p \in Held(res)
            /\ \A sub \in SUBSET (0..(span - 1)) :
                  (Cardinality(sub) = k) => (\E res \in finals : Held(res) = sub)

\* C10: when n <= k, Sample returns, and its result holds each of the
\* positions begin, begin + 1, ..., begin + n - 1 exactly once, for every
\* n >= 0 including n = 1.
SampleAllWhenSmall ==
    (pc \in {"done", "fault"} /\ n <= k) =>
        /\ pc = "done"
        /\ Len(reservoir) = n
        /\ Held(reservoir) = 0..(n - 1)

------------------------------------------------------------\* C26: for n > k >= 1 and any generator outputs, each entry of the result of
\* Sample is begin + j with 0 <= j <= n - 1; the past-the-end position
\* begin + n is never stored in the reservoir.
SampleInsideSource ==
    (pc \in {"skip", "done"} /\ n > k) =>
        (\A j \in DOMAIN reservoir : reservoir[j] \in 0..(n - 1))

\* C27: for n > k >= 1 and every sequence of generator outputs giving a
\* non-negative skip (the weight w is not 0), the index i strictly increases
\* in each iteration of Sample's skip loop, so the loop performs at most
\* n - k reservoir overwrites and returns once i exceeds n.  (draws counts
\* the overwrites.)
SampleSkipTerminates ==
    [][(pc = "skip" /\ n > k /\ weight = "unit") =>
          /\ Less(i, i')
          /\ draws' <= n - k]_vars

----------------
(* SampleWithReplacement(begin, end, k, g)                                 *)

\* end - begin of the ranges tried, as a ptrdiff_t in two's complement:
\* inverted, empty, short, and longer than an int can count
PoolSpans ==
    {Sub(Zero(8), Size(1)), Size(0), Size(1), Size(MaxN),
     Add(Shl(Size(1), 31), Size(1)), Add(Shl(Size(1), 32), Size(5))}

\* const size_t n = end > begin ? end - begin : 0
PoolN(d) == IF d # Zero(8) /\ d[8] < 128 THEN d ELSE Zero(8)

\* std::vector<Iterator> pool{k, begin}: k copies of begin, as offsets
Pool0(kk) == [j \in 1..kk |-> Zero(8)]

\* it += g.Next(n): the T returned is converted to the iterator's signed
\* 64-bit difference type, which keeps the value of a 32-bit T and the bits
\* of a 64-bit one
Moved(it, ret) == Add(it, Ext(ret, 8))

InitPool ==
    /\ ctor = "seeded"
    /\ \E kd \in RandKinds, ub \in ShiftOutcomes :
          /\ kind = kd
          /\ g = Construct(kd, NextSeed, <<Zero(4), Zero(4)>>, ub)
    /\ h = NoEngine
    /\ out = <<>>
    /\ outh = <<>>
    /\ draws = 0
    /\ call = NoCall
    /\ mem = <<>>
    /\ mem0 = <<>>
    /\ len = 0
    /\ i = Zero(8)
    /\ pc = "pool"
    /\ span = 0
    /\ n = 0
    /\ k \in 0..MaxK
    /\ weight = "unit"
    /\ reservoir = <<>>
    /\ pool = <<>>

\* Lines 126 and 128: n (kept in call.n, a size_t over its full width) and
\* the vector of k copies of begin.
PoolCall ==
    /\ pc = "pool"
    /\ \E d \in PoolSpans :
          call' = [op |-> "SampleWithReplacement", span |-> d, n |-> PoolN(d)]
    /\ pool' = Pool0(k)
    /\ i' = Zero(8)
    /\ pc' = "fill"
    /\ UNCHANGED <<ctor, kind, g, h, out, outh, draws, mem, mem0, len, span, n, k, weight,
                   reservoir>>

\* Lines 129 to 131, one element of the range-for (i counts the elements
\* passed): it += g.Next(n).
PoolStep ==
    /\ pc = "fill"
    /\ ToNat(i) < Len(pool)
    /\ \E ub \in ShiftOutcomes :
       \E wl \in {ResultLimbs(kind)}, after \in {Drawn(kind, g, ub)} :
       \E o \in Next_n(wl, SizeToT(call.n, wl)) :
          IF o.status = "returned"
          THEN /\ pool' = [pool EXCEPT ![ToNat(i) + 1] = Moved(@, o.ret)]
               /\ g' = after[o.m]
               /\ i' = Add(i, Size(1))
               /\ pc' = pc
          ELSE /\ pc' = "aborted"
               /\ UNCHANGED <<pool, g, i>>
    /\ UNCHANGED <<ctor, kind, h, out, outh, draws, call, mem, mem0, len, span, n, k,
                   weight, reservoir>>

\* Line 133: return pool.
PoolReturn ==
    /\ pc = "fill"
    /\ ToNat(i) = Len(pool)
    /\ pc' = "done"
    /\ UNCHANGED <<ctor, kind, g, h, out, outh, draws, call, mem, mem0, len, i, span, n,
                   k, weight, reservoir, pool>>

NextPool ==
    \/ PoolCall
    \/ PoolStep
    \/ PoolReturn

SpecPool == InitPool /\ [][NextPool]_vars

\* C11: SampleWithReplacement returns exactly k positions whatever n is, and
\* for n >= 1 every returned position is begin + j with 0 <= j < n.
PoolInRange ==
    (pc = "done") =>
        /\ Len(pool) = k
        /\ (call.n # Zero(8)) => (\A j \in DOMAIN pool : Less(pool[j], call.n))

----------------------------------------------------------------------------
(* RNG<T>::NextReal() and Heads(weight) as calls; NextFloating() and        *)
(* Heads(weight) of the earlier revision                                   *)

\* Earlier revision, LCG::Advance32(): the state found, narrowed to 32 bits
LCG_Advance32(e) == [eng |-> LCG_Advance(e).eng, ret |-> Trunc(e.state_, 4)]

\* Earlier revision, static_cast<double>(Next32()) / UINT32_MAX, by class:
\* 0.0 for 0, 1.0 ("one") for UINT32_MAX, inside (0, 1) otherwise
NextFloating(x) ==
    IF x = Zero(4) THEN "zero" ELSE IF x = Not(Zero(4)) THEN "one" ELSE "open"

\* weights tried, by class: below 0, 0.0, inside (0, 1), 1.0, above 1
WeightArgs == {"negative", "zero", "inside", "one", "above"}

\* u < weight for a draw u of class "zero", "open" or "one": the values the
\* comparison can have
RealLess(u, wt) ==
    CASE u = "zero" -> {wt \in {"inside", "one", "above"}}
      [] u = "open" -> IF wt = "inside" THEN BOOLEAN ELSE {wt \in {"one", "above"}}
      [] u = "one" -> {wt = "above"}

InitReal ==
    /\ ctor = "seeded"
    /\ \E kd \in EngineKinds, seed \in {NextSeed, ZeroDraw1, Zero(8), Not(Zero(8))},
          ub \in ShiftOutcomes :
          /\ kind = kd
          /\ g = Construct(kd, seed, <<Zero(4), Zero(4)>>, ub)
    /\ h = NoEngine
    /\ out = <<>>
    /\ outh = <<>>
    /\ draws = 0
    /\ call = NoCall
    /\ mem = <<>>
    /\ mem0 = <<>>
    /\ len = 0
    /\ i = Zero(8)
    /\ pc = "idle"
    /\ span = 0
    /\ n = 0
    /\ k = 0
    /\ weight = "unit"
    /\ reservoir = <<>>
    /\ pool = <<>>

\* the call op with weight wt has drawn u and returned heads
Flipped(op, wt, u, heads, after) ==
    /\ draws < MaxDraws
    /\ draws' = draws + 1
    /\ g' = after
    /\ call' = [op |-> op, wt |-> wt, u |-> u, heads |-> heads]
    /\ UNCHANGED <<ctor, kind, h, out, outh, mem, mem0, len, i, pc, span, n, k, weight,
                   reservoir, pool>>

\* g.NextReal()
CallNextReal ==
    \E ub \in ShiftOutcomes : \E r \in {NextReal(kind, g, ub)} :
        Flipped("NextReal()", "none", r.u, FALSE, r.eng)

\* g.Heads(weight): return NextReal() < weight
CallHeads ==
    \E ub \in ShiftOutcomes : \E r \in {NextReal(kind, g, ub)} :
    \E wt \in WeightArgs : \E b \in RealLess(r.u, wt) :
        Flipped("Heads(weight)", wt, r.u, b, r.eng)

\* earlier revision, on an LCG: g.NextFloating()
CallNextFloating ==
    /\ kind = "LCG"
    /\ \E d \in {LCG_Advance32(g)} :
          Flipped("NextFloating()", "none", NextFloating(d.ret), FALSE, d.eng)

\* earlier revision, on an LCG: g.Heads(weight): return NextFloating() < weight
CallHeadsFloating ==
    /\ kind = "LCG"
    /\ \E d \in {LCG_Advance32(g)} :
       \E wt \in WeightArgs : \E b \in RealLess(NextFloating(d.ret), wt) :
          Flipped("Heads(weight) over NextFloating()", wt, NextFloating(d.ret), b, d.eng)

NextCoin ==
    \/ CallNextReal
    \/ CallHeads
    \/ CallNextFloating
    \/ CallHeadsFloating

SpecReal == InitReal /\ [][NextCoin]_vars

\* C14: for every engine and every value the primitive draw can produce,
\* NextReal() (NextFloating() in the earlier revision) returns r with
\* 0 < r < 1 strictly.
RealStrictlyInside ==
    (call.op \in {"NextReal()", "NextFloating()"}) => (call.u = "open")

\* C15: for every engine and every value the draw can produce, Heads(weight)
\* returns false whenever weight <= 0 and true whenever weight >= 1.
HeadsEdges ==
    (call.op \in {"Heads(weight)", "Heads(weight) over NextFloating()"}) =>
        /\ (call.wt \in {"negative", "zero"}) => (call.heads = FALSE)
        /\ (call.wt \in {"one", "above"}) => (call.heads = TRUE)

====
